---- MODULE Spec2Model ----
(***************************************************************************)
(* Election integrity core of secure-club-voting: the ElectionProvider     *)
(* state (elections, votes, voterRecords, voterCodes, voterRegistrations)  *)
(* and the operations it exposes through the election context.             *)
(***************************************************************************)
EXTENDS Integers, Sequences, FiniteSets, TLC

(* ------------------------------ bounds --------------------------------- *)
MaxRegistrations == 1
MaxVoters == 2
MaxCodes == 2
MaxVotes == 2
MaxCreated == 1
MaxNewCandidates == 2
MaxBallots == 4
MaxFetches == 2

VARIABLES elections, votes, voterRecords, voterCodes, voterRegistrations,
          renderedRecords, created,
          user, profile, isLoading, fetches

(* the state of the AuthProvider *)
authVars == <<user, profile, isLoading, fetches>>

(* the state of the ElectionProvider *)
electionVars == <<elections, votes, voterRecords, voterCodes, voterRegistrations,
                  renderedRecords, created>>

vars == <<elections, votes, voterRecords, voterCodes, voterRegistrations,
          renderedRecords, created, authVars>>

(* --------------------------- identities -------------------------------- *)
(* The session user is the Supabase User (id, email, role); the role that  *)
(* makes somebody an administrator is the one of the profiles row.         *)
NoUser == [id |-> "", email |-> "", role |-> ""]
NoProfile == [username |-> "", role |-> ""]

AdminUser == [id |-> "a1", email |-> "admin@club.org", role |-> "authenticated"]
Voter1 == [id |-> "v1", email |-> "x@y.com", role |-> "authenticated"]
Voter2 == [id |-> "v2", email |-> "z@y.com", role |-> "authenticated"]

Users == {AdminUser, Voter1, Voter2}

ProfileOf(u) ==
    IF u = AdminUser THEN [username |-> u.id, role |-> "admin"]
    ELSE [username |-> u.id, role |-> "voter"]

(* What useAuth() hands to the provider: nobody signed in, a signed-in user *)
(* whose profile is loaded, or a signed-in user whose profile is not (yet). *)
Sessions ==
    {[user |-> NoUser, profile |-> NoProfile]}
    \cup {[user |-> u, profile |-> ProfileOf(u)] : u \in Users}
    \cup {[user |-> AdminUser, profile |-> NoProfile]}

(* The AuthProvider after construction: nobody signed in, no profile, the  *)
(* initial session check outstanding, no profile request in flight.        *)
AuthInit ==
    /\ user = NoUser
    /\ profile = NoProfile
    /\ isLoading = TRUE
    /\ fetches = << >>

(* `!user || !profile || profile.role !== 'admin'` negated *)
IsAdminProfile(s) ==
    s.user # NoUser /\ s.profile # NoProfile /\ s.profile.role = "admin"

(* ------------------------------ inputs --------------------------------- *)
EmailInputs == {"x@y.com", "X@Y.com", "admin@club.org"}
VoterEmails == {"x@y.com", "X@Y.com", "z@y.com"}
NameInputs == {"Pat"}
CodeValues == {"K1", "K2"}
StatusValues == {"upcoming", "active", "closed"}
RegistrationStatusValues == {"open", "closed"}
ReviewValues == {"approved", "rejected"}

(* String.prototype.toLowerCase on the e-mail addresses in use *)
toLowerCase(e) == IF e = "X@Y.com" THEN "x@y.com" ELSE e

(* ------------------------------ helpers -------------------------------- *)
Min(S) == CHOOSE x \in S : \A y \in S : x <= y

(* --------------------------- initial data ------------------------------ *)
Candidate(id, name) == [id |-> id, name |-> name]

MOCK_ELECTIONS ==
    << [id |-> 1, electionCode |-> "AB1234", status |-> "active",
        registrationStatus |-> "open", createdBy |-> "1",
        candidates |-> << Candidate(101, "Jane Smith"),
                          Candidate(102, "Michael Wong"),
                          Candidate(103, "Sarah Johnson") >>],
       [id |-> 2, electionCode |-> "CD5678", status |-> "upcoming",
        registrationStatus |-> "open", createdBy |-> "1",
        candidates |-> << Candidate(201, "Facility Improvements"),
                          Candidate(202, "Community Outreach"),
                          Candidate(203, "Membership Benefits") >>] >>

FirstNewElectionId == Len(MOCK_ELECTIONS) + 1
ElectionIdInputs == {1, 2, FirstNewElectionId}
CandidateIdInputs == {101, 102, 201, 999}
ElectionCodeValues == {"AB1234", "XY1000"}

NoElection == [id |-> 0, electionCode |-> "", status |-> "", registrationStatus |-> "",
               createdBy |-> "", candidates |-> << >>]
NoRegistration == [id |-> 0, electionId |-> 0, name |-> "", email |-> "", status |-> "",
                   reviewedBy |-> "", voterCodeId |-> ""]

(* elections.find(e => e.id === electionId) *)
getElectionById(id) ==
    LET idx == {i \in DOMAIN elections : elections[i].id = id}
    IN IF idx = {} THEN NoElection ELSE elections[Min(idx)]

Init ==
    /\ elections = MOCK_ELECTIONS
    /\ votes = << >>
    /\ voterRecords = << >>
    /\ voterCodes = << >>
    /\ voterRegistrations = << >>
    /\ renderedRecords = << >>
    /\ created = 0
    /\ AuthInit

(* ------------------------- eligibility ledger -------------------------- *)
(* voterRegistrations.some(reg => same election, e-mails equal ignoring case) *)
(* variant: the e-mails are compared as typed *)
hasRegisteredExactCase(electionId, email) ==
    \E i \in DOMAIN voterRegistrations :
        /\ voterRegistrations[i].electionId = electionId
        /\ voterRegistrations[i].email = email

hasRegisteredForElection(electionId, email) ==
    \E i \in DOMAIN voterRegistrations :
        /\ voterRegistrations[i].electionId = electionId
        /\ toLowerCase(voterRegistrations[i].email) = toLowerCase(email)

(* variant: registrationStatus is not looked at *)
canRegisterWhileUpcoming(s, electionId) ==
    IF s.user = NoUser THEN FALSE
    ELSE LET election == getElectionById(electionId)
         IN IF election = NoElection THEN FALSE
            ELSE election.status = "upcoming"

canRegisterForElection(s, electionId) ==
    IF s.user = NoUser THEN FALSE
    ELSE LET election == getElectionById(electionId)
         IN IF election = NoElection THEN FALSE
            ELSE election.status = "upcoming" /\ election.registrationStatus = "open"

(* voterRegistrations.find(reg => reg.electionId === electionId && reg.email === user.email) *)
FindRegistrationOfUser(s, electionId) ==
    LET idx == {i \in DOMAIN voterRegistrations :
                   /\ voterRegistrations[i].electionId = electionId
                   /\ voterRegistrations[i].email = s.user.email}
    IN IF idx = {} THEN NoRegistration ELSE voterRegistrations[Min(idx)]

(* variant: the status of the registration is not looked at *)
isVoterApprovedAnyStatus(s, electionId) ==
    IF s.user = NoUser THEN FALSE
    ELSE LET registration == FindRegistrationOfUser(s, electionId)
         IN IF registration = NoRegistration THEN FALSE
            ELSE \E i \in DOMAIN voterCodes : voterCodes[i].code = registration.voterCodeId

isVoterApprovedForElection(s, electionId) ==
    IF s.user = NoUser THEN FALSE
    ELSE LET registration == FindRegistrationOfUser(s, electionId)
         IN IF registration = NoRegistration \/ registration.status # "approved" THEN FALSE
            ELSE \E i \in DOMAIN voterCodes : voterCodes[i].code = registration.voterCodeId

validateVoterCode(code, electionId) ==
    \E i \in DOMAIN voterCodes :
        /\ voterCodes[i].code = code
        /\ voterCodes[i].electionId = electionId
        /\ ~voterCodes[i].isUsed

(* ------------------------------ ballot box ----------------------------- *)
(* variant: the record's voterId is compared with the caller's e-mail *)
hasVotedByEmail(s, electionId) ==
    IF s.user = NoUser THEN FALSE
    ELSE \E i \in DOMAIN renderedRecords :
            /\ renderedRecords[i].voterId = s.user.email
            /\ renderedRecords[i].electionId = electionId

(* hasVoted reads the voterRecords captured by the current render *)
hasVoted(s, electionId) ==
    IF s.user = NoUser THEN FALSE
    ELSE \E i \in DOMAIN renderedRecords :
            /\ renderedRecords[i].voterId = s.user.id
            /\ renderedRecords[i].electionId = electionId

(* The checks of castVote in the order of the code; the result names the  *)
(* toast title of the first check that fails, "ok" when none does.        *)
CastVoteOutcome(s, electionId) ==
    LET election == getElectionById(electionId)
    IN IF s.user = NoUser THEN "Authentication required"
       ELSE IF s.user.role = "admin" THEN "Admin cannot vote"
       ELSE IF election = NoElection THEN "Election not found"
       ELSE IF election.status # "active" THEN "Voting not allowed"
       ELSE IF ~isVoterApprovedForElection(s, electionId) THEN "Not authorized"
       ELSE IF hasVoted(s, electionId) THEN "Already voted"
       ELSE "ok"

(* setVotes(prev => [...prev, voteData]); the id stands for the fresh uuid *)
AppendVote(prev, electionId, candidateId) ==
    Append(prev, [id |-> Len(prev) + 1, electionId |-> electionId,
                  candidateId |-> candidateId])

(* setVoterRecords(prev => [...prev, {voterId, electionId, hasVoted: true}]) *)
AppendVoterRecord(prev, voterId, electionId) ==
    Append(prev, [voterId |-> voterId, electionId |-> electionId, hasVoted |-> TRUE])

(* variant: the VoterRecord is written, the Vote is not *)
CastVoteCallRecordOnly(s, electionId, candidateId) ==
    LET res == CastVoteOutcome(s, electionId)
    IN /\ IF res = "ok"
          THEN voterRecords' = AppendVoterRecord(voterRecords, s.user.id, electionId)
          ELSE UNCHANGED voterRecords
       /\ UNCHANGED <<votes, elections, voterCodes, voterRegistrations, created>>

(* One invocation of castVote. The state setters are queued; the closures  *)
(* of the render are refreshed by Render.                                  *)
CastVoteCall(s, electionId, candidateId) ==
    LET res == CastVoteOutcome(s, electionId)
    IN /\ IF res = "ok"
          THEN /\ votes' = AppendVote(votes, electionId, candidateId)
               /\ voterRecords' = AppendVoterRecord(voterRecords, s.user.id, electionId)
          ELSE UNCHANGED <<votes, voterRecords>>
       /\ UNCHANGED <<elections, voterCodes, voterRegistrations, created>>

(* castVote from a click: React renders again before the next event *)
CastVote(s, electionId, candidateId) ==
    /\ CastVoteCall(s, electionId, candidateId)
    /\ renderedRecords' = voterRecords'

(* --------------------------- results tabulator ------------------------- *)
EmptyMapping == [c \in {} |-> 0]

CandidateIds(election) == {election.candidates[i].id : i \in DOMAIN election.candidates}

(* variant: the tally is returned whatever the status and the caller *)
getElectionResultsUngated(s, electionId) ==
    LET election == getElectionById(electionId)
    IN IF election = NoElection THEN EmptyMapping
       ELSE [c \in CandidateIds(election) |->
                Cardinality({j \in DOMAIN votes :
                                /\ votes[j].electionId = electionId
                                /\ votes[j].candidateId = c})]

getElectionResults(s, electionId) ==
    LET election == getElectionById(electionId)
    IN IF election = NoElection THEN EmptyMapping
       ELSE IF election.status # "closed" /\ (s.user = NoUser \/ s.user.role # "admin")
       THEN EmptyMapping
       ELSE [c \in CandidateIds(election) |->
                Cardinality({j \in DOMAIN votes :
                                /\ votes[j].electionId = electionId
                                /\ votes[j].candidateId = c})]

(* Object.values(results).reduce((sum, count) => sum + count, 0) *)
RECURSIVE SumOver(_, _)
SumOver(f, D) ==
    IF D = {} THEN 0
    ELSE LET c == CHOOSE x \in D : TRUE IN f[c] + SumOver(f, D \ {c})

totalVotes(results) == SumOver(results, DOMAIN results)

(* --------------------------- results page ------------------------------ *)
NoCandidate == Candidate(0, "")
NoLeader == [maxVotes |-> 0, winnerId |-> 0, isTie |-> FALSE]

(* variant: a tie seen earlier is kept when a higher count follows *)
RECURSIVE ScanResultsStickyTie(_, _, _)
ScanResultsStickyTie(entries, results, acc) ==
    IF entries = << >> THEN acc
    ELSE LET candidateId == Head(entries)
             count == results[candidateId]
             next == IF count > acc.maxVotes
                     THEN [acc EXCEPT !.maxVotes = count, !.winnerId = candidateId]
                     ELSE IF count = acc.maxVotes /\ count > 0
                     THEN [acc EXCEPT !.isTie = TRUE]
                     ELSE acc
         IN ScanResultsStickyTie(Tail(entries), results, next)

(* for (const [candidateId, votes] of Object.entries(results)) { ... };    *)
(* entries is the order in which Object.entries lists the keys             *)
RECURSIVE ScanResults(_, _, _)
ScanResults(entries, results, acc) ==
    IF entries = << >> THEN acc
    ELSE LET candidateId == Head(entries)
             count == results[candidateId]
             next == IF count > acc.maxVotes
                     THEN [maxVotes |-> count, winnerId |-> candidateId, isTie |-> FALSE]
                     ELSE IF count = acc.maxVotes /\ count > 0
                     THEN [acc EXCEPT !.isTie = TRUE]
                     ELSE acc
         IN ScanResults(Tail(entries), results, next)

getWinner(election, results, entries) ==
    IF election.status # "closed" \/ totalVotes(results) = 0 THEN NoCandidate
    ELSE LET acc == ScanResults(entries, results, NoLeader)
             idx == {k \in DOMAIN election.candidates :
                        election.candidates[k].id = acc.winnerId}
         IN IF acc.isTie \/ idx = {} THEN NoCandidate
            ELSE election.candidates[Min(idx)]

(* ----------------------------- registration ---------------------------- *)
RegisterOutcome(s, electionId, email) ==
    IF s.user = NoUser THEN "Authentication required"
    ELSE IF getElectionById(electionId) = NoElection THEN "Election not found"
    ELSE IF ~canRegisterForElection(s, electionId) THEN "Registration closed"
    ELSE IF hasRegisteredForElection(electionId, email) THEN "Already registered"
    ELSE "ok"

NewRegistration(prev, electionId, name, email) ==
    [id |-> Len(prev) + 1, electionId |-> electionId, name |-> name, email |-> email,
     status |-> "pending", reviewedBy |-> "", voterCodeId |-> ""]

RegisterForElection(s, electionId, name, email) ==
    LET res == RegisterOutcome(s, electionId, email)
    IN /\ IF res = "ok"
          THEN voterRegistrations' =
                    Append(voterRegistrations,
                           NewRegistration(voterRegistrations, electionId, name, email))
          ELSE UNCHANGED voterRegistrations
       /\ UNCHANGED <<elections, votes, voterRecords, voterCodes, renderedRecords, created>>

(* voterRegistrations.find(reg => reg.id === registrationId) *)
FindRegistrationById(registrationId) ==
    LET idx == {i \in DOMAIN voterRegistrations :
                   voterRegistrations[i].id = registrationId}
    IN IF idx = {} THEN NoRegistration ELSE voterRegistrations[Min(idx)]

ReviewOutcome(s, registrationId) ==
    IF ~IsAdminProfile(s) THEN "Permission denied"
    ELSE IF FindRegistrationById(registrationId) = NoRegistration
    THEN "Registration not found"
    ELSE "ok"

NewVoterCode(code, electionId, email, createdBy) ==
    [code |-> code, electionId |-> electionId, isUsed |-> FALSE, email |-> email,
     createdBy |-> createdBy]

(* variant: the approved registration is not given the code *)
UpdateVoterRegistrationStatusUnlinked(s, registrationId, status, adminId, code) ==
    LET res == ReviewOutcome(s, registrationId)
        registration == FindRegistrationById(registrationId)
        Reviewed(reg) == IF reg.id = registrationId
                         THEN [reg EXCEPT !.status = status, !.reviewedBy = adminId]
                         ELSE reg
    IN /\ IF res # "ok"
          THEN UNCHANGED <<voterRegistrations, voterCodes>>
          ELSE /\ voterRegistrations' =
                    [i \in DOMAIN voterRegistrations |-> Reviewed(voterRegistrations[i])]
               /\ voterCodes' = IF status = "approved"
                                THEN Append(voterCodes,
                                            NewVoterCode(code, registration.electionId,
                                                         registration.email, adminId))
                                ELSE voterCodes
       /\ UNCHANGED <<elections, votes, voterRecords, renderedRecords, created>>

(* code stands for generateUniqueVoterCode(): eight characters of a uuid,  *)
(* not compared with the codes that exist                                  *)
UpdateVoterRegistrationStatus(s, registrationId, status, adminId, code) ==
    LET res == ReviewOutcome(s, registrationId)
        registration == FindRegistrationById(registrationId)
        Reviewed(reg) == IF reg.id = registrationId
                         THEN [reg EXCEPT !.status = status, !.reviewedBy = adminId]
                         ELSE reg
        Linked(reg) == IF reg.id = registrationId
                       THEN [reg EXCEPT !.voterCodeId = code]
                       ELSE reg
    IN /\ IF res # "ok"
          THEN UNCHANGED <<voterRegistrations, voterCodes>>
          ELSE IF status = "approved"
          THEN /\ voterCodes' = Append(voterCodes,
                                       NewVoterCode(code, registration.electionId,
                                                    registration.email, adminId))
               /\ voterRegistrations' =
                    [i \in DOMAIN voterRegistrations |->
                        Linked(Reviewed(voterRegistrations[i]))]
          ELSE /\ voterRegistrations' =
                    [i \in DOMAIN voterRegistrations |-> Reviewed(voterRegistrations[i])]
               /\ UNCHANGED voterCodes
       /\ UNCHANGED <<elections, votes, voterRecords, renderedRecords, created>>

(* ------------------------------ voter codes ---------------------------- *)
GenerateOutcome(s, electionId) ==
    IF ~IsAdminProfile(s) THEN "Permission denied"
    ELSE IF getElectionById(electionId) = NoElection THEN "Election not found"
    ELSE "ok"

(* codes[i] stands for uuidv4().substring(0, 8).toUpperCase() of round i *)
GenerateVoterCodes(s, electionId, codes) ==
    LET res == GenerateOutcome(s, electionId)
        newCodes == [i \in DOMAIN codes |->
                        NewVoterCode(codes[i], electionId, "", s.user.id)]
    IN /\ IF res = "ok"
          THEN voterCodes' = voterCodes \o newCodes
          ELSE UNCHANGED voterCodes
       /\ UNCHANGED <<elections, votes, voterRecords, voterRegistrations,
                      renderedRecords, created>>

MarkVoterCodeAsUsed(code) ==
    LET Used(voterCode) == IF voterCode.code = code
                           THEN [voterCode EXCEPT !.isUsed = TRUE]
                           ELSE voterCode
    IN /\ voterCodes' = [i \in DOMAIN voterCodes |-> Used(voterCodes[i])]
       /\ UNCHANGED <<elections, votes, voterRecords, voterRegistrations,
                      renderedRecords, created>>

(* --------------------------- election registry ------------------------- *)
(* variant: any signed-in caller is let through *)
AdminOutcomeSignedIn(s) == IF s.user = NoUser THEN "Permission denied" ELSE "ok"

AdminOutcome(s) == IF ~IsAdminProfile(s) THEN "Permission denied" ELSE "ok"

(* variant: a closed election keeps its status *)
UpdateElectionStatusKeepClosed(s, electionId, status) ==
    LET res == AdminOutcome(s)
        Updated(election) == IF election.id = electionId /\ election.status # "closed"
                             THEN [election EXCEPT !.status = status]
                             ELSE election
    IN /\ elections' = IF res = "ok"
                       THEN [i \in DOMAIN elections |-> Updated(elections[i])]
                       ELSE elections
       /\ UNCHANGED <<votes, voterRecords, voterCodes, voterRegistrations,
                      renderedRecords, created>>

UpdateElectionStatus(s, electionId, status) ==
    LET res == AdminOutcome(s)
        Updated(election) == IF election.id = electionId
                             THEN [election EXCEPT !.status = status]
                             ELSE election
    IN /\ elections' = IF res = "ok"
                       THEN [i \in DOMAIN elections |-> Updated(elections[i])]
                       ELSE elections
       /\ UNCHANGED <<votes, voterRecords, voterCodes, voterRegistrations,
                      renderedRecords, created>>

(* variant: closing registration is written to status *)
UpdateRegistrationStatusAsStatus(s, electionId, registrationStatus) ==
    LET res == AdminOutcome(s)
        Updated(election) == IF election.id = electionId
                             THEN [election EXCEPT !.status = registrationStatus]
                             ELSE election
    IN /\ elections' = IF res = "ok"
                       THEN [i \in DOMAIN elections |-> Updated(elections[i])]
                       ELSE elections
       /\ UNCHANGED <<votes, voterRecords, voterCodes, voterRegistrations,
                      renderedRecords, created>>

UpdateRegistrationStatus(s, electionId, registrationStatus) ==
    LET res == AdminOutcome(s)
        Updated(election) == IF election.id = electionId
                             THEN [election EXCEPT !.registrationStatus = registrationStatus]
                             ELSE election
    IN /\ elections' = IF res = "ok"
                       THEN [i \in DOMAIN elections |-> Updated(elections[i])]
                       ELSE elections
       /\ UNCHANGED <<votes, voterRecords, voterCodes, voterRegistrations,
                      renderedRecords, created>>

(* The row of the elections table and the rows of the candidates table as  *)
(* an Election of the application.                                         *)
mapDatabaseElectionToAppElection(row, candidatesData) ==
    [id |-> row.id, electionCode |-> row.election_code, status |-> row.status,
     registrationStatus |-> row.registration_status, createdBy |-> row.created_by,
     candidates |-> candidatesData]

(* started: new Date() >= startDate. given: the candidates handed in.      *)
(* saved: how many of the candidate inserts the database accepted.         *)
(* code: generateElectionCode(), not compared with the codes that exist.   *)
(* inserted: the insert into the elections table returned no error.        *)
CreateElection(s, inserted, started, given, saved, code) ==
    LET res == AdminOutcome(s)
        id == FirstNewElectionId + created
        row == [id |-> id, election_code |-> code,
                status |-> IF started THEN "active" ELSE "upcoming",
                registration_status |-> "open", created_by |-> s.user.id]
        candidatesData == [k \in 1 .. saved |-> Candidate(100 * id + k, "New")]
    IN /\ saved <= given
       /\ IF res = "ok" /\ inserted
          THEN /\ created' = created + 1
               /\ elections' = Append(elections,
                                      mapDatabaseElectionToAppElection(row, candidatesData))
          ELSE UNCHANGED <<elections, created>>
       /\ UNCHANGED <<votes, voterRecords, voterCodes, voterRegistrations, renderedRecords>>

(* variant: the status of the election is not looked at *)
CandidateNameOutcomeAnyStatus(s, electionId) ==
    IF ~IsAdminProfile(s) THEN "Permission denied"
    ELSE IF getElectionById(electionId) = NoElection THEN "Election not found"
    ELSE "ok"

CandidateNameOutcome(s, electionId) ==
    LET election == getElectionById(electionId)
    IN IF ~IsAdminProfile(s) THEN "Permission denied"
       ELSE IF election = NoElection THEN "Election not found"
       ELSE IF election.status # "upcoming" THEN "Update not allowed"
       ELSE "ok"

UpdateCandidateName(s, electionId, candidateId, newName) ==
    LET res == CandidateNameOutcome(s, electionId)
        Renamed(candidate) == IF candidate.id = candidateId
                              THEN [candidate EXCEPT !.name = newName]
                              ELSE candidate
        Updated(election) ==
            IF election.id = electionId
            THEN [election EXCEPT !.candidates =
                     [k \in DOMAIN election.candidates |-> Renamed(election.candidates[k])]]
            ELSE election
    IN /\ elections' = IF res = "ok"
                       THEN [i \in DOMAIN elections |-> Updated(elections[i])]
                       ELSE elections
       /\ UNCHANGED <<votes, voterRecords, voterCodes, voterRegistrations,
                      renderedRecords, created>>

(* The provider is mounted again: elections start from MOCK_ELECTIONS, the *)
(* other collections come back from localStorage.                          *)
Reload ==
    /\ elections' = MOCK_ELECTIONS
    /\ renderedRecords' = voterRecords
    /\ UNCHANGED <<votes, voterRecords, voterCodes, voterRegistrations, created>>
    /\ UNCHANGED authVars

(* How React schedules: the closures a handler runs with are those of the  *)
(* last render.                                                            *)
Render ==
    /\ renderedRecords # voterRecords
    /\ renderedRecords' = voterRecords
    /\ UNCHANGED <<elections, votes, voterRecords, voterCodes, voterRegistrations, created>>
    /\ UNCHANGED authVars

(* ---------------------------- identity provider ------------------------ *)
(* fetches holds the user ids of the profile requests that fetchUserProfile *)
(* has been asked for and that have not resolved yet.                      *)
SessionUsers == Users \cup {NoUser}

UserOfId(id) == CHOOSE u \in Users : u.id = id

RemoveAt(seq, i) == SubSeq(seq, 1, i - 1) \o SubSeq(seq, i + 1, Len(seq))

(* The callback given to supabase.auth.onAuthStateChange, for an event     *)
(* whose session belongs to sessionUser (NoUser: no session).              *)
onAuthStateChange(sessionUser) ==
    /\ user' = sessionUser
    /\ IF sessionUser # NoUser
       THEN /\ fetches' = Append(fetches, sessionUser.id)
            /\ UNCHANGED profile
       ELSE /\ profile' = NoProfile
            /\ UNCHANGED fetches
    /\ UNCHANGED isLoading
    /\ UNCHANGED electionVars

(* The continuation of supabase.auth.getSession(), which runs once. *)
getSessionThen(sessionUser) ==
    /\ isLoading
    /\ user' = sessionUser
    /\ fetches' = IF sessionUser # NoUser THEN Append(fetches, sessionUser.id) ELSE fetches
    /\ isLoading' = FALSE
    /\ UNCHANGED profile
    /\ UNCHANGED electionVars

(* fetchUserProfile after its await: request i has resolved, with the row  *)
(* of the profiles table (found) or with an error.                         *)
fetchUserProfile(i, found) ==
    /\ i \in DOMAIN fetches
    /\ profile' = IF found THEN ProfileOf(UserOfId(fetches[i])) ELSE profile
    /\ fetches' = RemoveAt(fetches, i)
    /\ UNCHANGED <<user, isLoading>>
    /\ UNCHANGED electionVars

AuthChangeStep ==
    \E sessionUser \in SessionUsers :
        /\ sessionUser # NoUser => Len(fetches) < MaxFetches
        /\ onAuthStateChange(sessionUser)

(* the client answers with the session its last event announced, or, when  *)
(* that was none, with whatever session it finds stored                    *)
InitialSessionStep ==
    \E sessionUser \in SessionUsers :
        /\ user = NoUser \/ sessionUser = user
        /\ sessionUser # NoUser => Len(fetches) < MaxFetches
        /\ getSessionThen(sessionUser)

FetchStep == \E i \in 1 .. MaxFetches, found \in BOOLEAN : fetchUserProfile(i, found)

NextAuth ==
    \/ AuthChangeStep
    \/ InitialSessionStep
    \/ FetchStep

SpecAuth == Init /\ [][NextAuth]_vars

(* ------------------------------ read access ---------------------------- *)
getVoterRegistrationsByElection(s, electionId) ==
    IF s.user = NoUser \/ s.user.role # "admin" THEN << >>
    ELSE LET OfElection(reg) == reg.electionId = electionId
         IN SelectSeq(voterRegistrations, OfElection)

getPendingRegistrations(s) ==
    IF s.user = NoUser \/ s.user.role # "admin" THEN << >>
    ELSE LET Pending(reg) == reg.status = "pending"
         IN SelectSeq(voterRegistrations, Pending)

getVoterCodesByElection(s, electionId) ==
    IF s.user = NoUser \/ s.user.role # "admin" THEN << >>
    ELSE LET OfElection(code) == code.electionId = electionId
         IN SelectSeq(voterCodes, OfElection)

(* The fields voterCodes and voterRegistrations of the context value: the  *)
(* state arrays themselves, for whoever calls useElections().              *)
valueVoterCodes(s) == voterCodes

valueVoterRegistrations(s) == voterRegistrations

(* ---------------------------- specifications --------------------------- *)
(* The handlers of the ElectionProvider read the AuthProvider's state and  *)
(* have no setter of it: every step of theirs leaves authVars alone.       *)
AdminIdInputs == {"a1"}
CodeSeqs == UNION {[1 .. n -> CodeValues] : n \in 1 .. MaxCodes}

VoteStep(S, E, C) ==
    \E s \in S, e \in E, c \in C :
        /\ Len(votes) < MaxVotes
        /\ CastVote(s, e, c)
        /\ UNCHANGED authVars

RegisterStep(S, E, M, max) ==
    \E s \in S, e \in E, n \in NameInputs, m \in M :
        /\ Len(voterRegistrations) < max
        /\ RegisterForElection(s, e, n, m)
        /\ UNCHANGED authVars

ReviewStep(S, max) ==
    \E s \in S, r \in 1 .. max, st \in ReviewValues, a \in AdminIdInputs, k \in CodeValues :
        /\ st = "approved" => Len(voterCodes) < MaxCodes
        /\ UpdateVoterRegistrationStatus(s, r, st, a, k)
        /\ UNCHANGED authVars

GenerateStep(S, E) ==
    \E s \in S, e \in E, ks \in CodeSeqs :
        /\ Len(voterCodes) + Len(ks) <= MaxCodes
        /\ GenerateVoterCodes(s, e, ks)
        /\ UNCHANGED authVars

MarkStep ==
    \E k \in CodeValues :
        /\ MarkVoterCodeAsUsed(k)
        /\ UNCHANGED authVars

StatusStep(S, E) ==
    \E s \in S, e \in E, st \in StatusValues :
        /\ UpdateElectionStatus(s, e, st)
        /\ UNCHANGED authVars

RegistrationStatusStep(S, E) ==
    \E s \in S, e \in E, rs \in RegistrationStatusValues :
        /\ UpdateRegistrationStatus(s, e, rs)
        /\ UNCHANGED authVars

RenameCandidateInputs == {201, 100 * FirstNewElectionId + 1, 999}
NewNameInputs == {"Renamed"}

RenameStep(S, E) ==
    \E s \in S, e \in E, c \in RenameCandidateInputs, n \in NewNameInputs :
        /\ UpdateCandidateName(s, e, c, n)
        /\ UNCHANGED authVars

CreateStep(S) ==
    \E s \in S, inserted \in BOOLEAN, started \in BOOLEAN,
       given \in 0 .. MaxNewCandidates, saved \in 0 .. MaxNewCandidates,
       k \in ElectionCodeValues :
        /\ created < MaxCreated
        /\ CreateElection(s, inserted, started, given, saved, k)
        /\ UNCHANGED authVars

(* Spec: the operations of the provider on the elections it starts with,   *)
(* one handler at a time.                                                  *)
Next ==
    \/ VoteStep(Sessions, ElectionIdInputs, CandidateIdInputs)
    \/ RegisterStep(Sessions, ElectionIdInputs, EmailInputs, MaxRegistrations)
    \/ ReviewStep(Sessions, MaxRegistrations)
    \/ GenerateStep(Sessions, ElectionIdInputs)
    \/ MarkStep
    \/ StatusStep(Sessions, ElectionIdInputs)
    \/ RegistrationStatusStep(Sessions, ElectionIdInputs)
    \/ Reload

Spec == Init /\ [][Next]_vars

(* SpecBallot: registration, review and voting with several voters.        *)
BallotElections == {2, FirstNewElectionId}
BallotCandidates == {201, 202}

NextBallot ==
    \/ VoteStep(Sessions, BallotElections, BallotCandidates)
    \/ RegisterStep(Sessions, BallotElections, VoterEmails, MaxVoters)
    \/ ReviewStep(Sessions, MaxVoters)
    \/ StatusStep(Sessions, BallotElections)
    \/ RegistrationStatusStep(Sessions, BallotElections)
    \/ Reload

SpecBallot == Init /\ [][NextBallot]_vars

(* SpecRace: castVote may be invoked again before React has rendered.      *)
CastVoteStale ==
    \E s \in Sessions, e \in ElectionIdInputs, c \in CandidateIdInputs :
        /\ Len(votes) < MaxVotes
        /\ CastVoteCall(s, e, c)
        /\ UNCHANGED renderedRecords
        /\ UNCHANGED authVars

NextRace ==
    \/ CastVoteStale
    \/ Render
    \/ RegisterStep(Sessions, ElectionIdInputs, EmailInputs, MaxRegistrations)
    \/ ReviewStep(Sessions, MaxRegistrations)
    \/ StatusStep(Sessions, ElectionIdInputs)

SpecRace == Init /\ [][NextRace]_vars

(* SpecRegistry: the election registry, with createElection.               *)
NextRegistry ==
    \/ CreateStep(Sessions)
    \/ StatusStep(Sessions, ElectionIdInputs)
    \/ RegistrationStatusStep(Sessions, ElectionIdInputs)
    \/ RenameStep(Sessions, ElectionIdInputs)
    \/ Reload

SpecRegistry == Init /\ [][NextRegistry]_vars

(* SpecAccess: registration, review, code generation and redemption, the   *)
(* operations that write voterRegistrations and voterCodes.                *)
NextAccess ==
    \/ RegisterStep(Sessions, BallotElections, VoterEmails, MaxVoters)
    \/ ReviewStep(Sessions, MaxVoters)
    \/ GenerateStep(Sessions, BallotElections)
    \/ MarkStep
    \/ RegistrationStatusStep(Sessions, BallotElections)
    \/ Reload

SpecAccess == Init /\ [][NextAccess]_vars

(* SpecAdmin: the admin-only operations, with the registrations they      *)
(* review.                                                                 *)
AdminElections == {2}
AdminEmails == {"x@y.com"}

NextAdmin ==
    \/ CreateStep(Sessions)
    \/ StatusStep(Sessions, AdminElections)
    \/ RegistrationStatusStep(Sessions, AdminElections)
    \/ RenameStep(Sessions, AdminElections)
    \/ RegisterStep(Sessions, AdminElections, AdminEmails, MaxRegistrations)
    \/ ReviewStep(Sessions, MaxRegistrations)
    \/ GenerateStep(Sessions, AdminElections)

SpecAdmin == Init /\ [][NextAdmin]_vars

(* SpecLifecycle: every operation on an existing election, one voter.      *)
NextLifecycle ==
    \/ VoteStep(Sessions, AdminElections, BallotCandidates)
    \/ RegisterStep(Sessions, AdminElections, AdminEmails, MaxRegistrations)
    \/ ReviewStep(Sessions, MaxRegistrations)
    \/ GenerateStep(Sessions, AdminElections)
    \/ MarkStep
    \/ StatusStep(Sessions, AdminElections)
    \/ RegistrationStatusStep(Sessions, AdminElections)
    \/ RenameStep(Sessions, AdminElections)
    \/ Reload

SpecLifecycle == Init /\ [][NextLifecycle]_vars

(* SpecTally: the provider mounted with ballots of earlier sessions in     *)
(* localStorage, and the status changes of their election.                 *)
StoredVoterIds == <<"p1", "p2", "p3", "p4", "p5", "p6">>
TallyElection == 2
TallyCandidates == {201, 202, 203}
StoredBallots == UNION {[1 .. n -> TallyCandidates] : n \in 0 .. MaxBallots}

InitTally ==
    /\ elections = MOCK_ELECTIONS
    /\ \E ballots \in StoredBallots :
          /\ votes = [k \in DOMAIN ballots |->
                         [id |-> k, electionId |-> TallyElection, candidateId |-> ballots[k]]]
          /\ voterRecords = [k \in DOMAIN ballots |->
                                [voterId |-> StoredVoterIds[k], electionId |-> TallyElection,
                                 hasVoted |-> TRUE]]
    /\ voterCodes = << >>
    /\ voterRegistrations = << >>
    /\ renderedRecords = voterRecords
    /\ created = 0
    /\ AuthInit

NextTally ==
    \/ StatusStep(Sessions, {TallyElection})
    \/ Reload

SpecTally == InitTally /\ [][NextTally]_vars

(* SpecJourney: an election created with two candidates and a start date  *)
(* in the future, and what one voter and the administrator do with it.     *)
JourneyElections == {FirstNewElectionId}
CandidateA == 100 * FirstNewElectionId + 1
CandidateB == 100 * FirstNewElectionId + 2

CreateUpcomingStep(S) ==
    \E s \in S, k \in ElectionCodeValues :
        /\ created < MaxCreated
        /\ CreateElection(s, TRUE, FALSE, 2, 2, k)
        /\ UNCHANGED authVars

NextJourney ==
    \/ CreateUpcomingStep(Sessions)
    \/ RegisterStep(Sessions, JourneyElections, AdminEmails, MaxRegistrations)
    \/ ReviewStep(Sessions, MaxRegistrations)
    \/ MarkStep
    \/ StatusStep(Sessions, JourneyElections)
    \/ VoteStep(Sessions, JourneyElections, {CandidateA, CandidateB})

SpecJourney == Init /\ [][NextJourney]_vars

(* ------------------------------- claims -------------------------------- *)
SessionOf(u) == [user |-> u, profile |-> ProfileOf(u)]

RecordsOf(voterId, electionId) ==
    {i \in DOMAIN voterRecords :
        voterRecords[i].voterId = voterId /\ voterRecords[i].electionId = electionId}

VotesOf(electionId) == {j \in DOMAIN votes : votes[j].electionId = electionId}

(* the step appended a VoterRecord for this voter and election: castVote succeeded *)
VoteCastBy(u, e) ==
    /\ Len(voterRecords') = Len(voterRecords) + 1
    /\ voterRecords'[Len(voterRecords')].voterId = u.id
    /\ voterRecords'[Len(voterRecords')].electionId = e

(* C1: there is never more than one VoterRecord for a voter and an         *)
(* election; a voter who has a VoterRecord for an election never gets a    *)
(* second castVote on it through; and right after a castVote of a voter    *)
(* has succeeded, the same call again fails as "Already voted".            *)
OneVotePerVoterC1 ==
    /\ [](\A u \in Users, e \in ElectionIdInputs :
            /\ Cardinality(RecordsOf(u.id, e)) <= 1
            /\ RecordsOf(u.id, e) # {} => CastVoteOutcome(SessionOf(u), e) # "ok")
    /\ [][\A u \in Users, e \in ElectionIdInputs :
            VoteCastBy(u, e) => (CastVoteOutcome(SessionOf(u), e) = "Already voted")']_vars

ReplayRejectedC1 ==
    \E u \in Users, e \in ElectionIdInputs :
        /\ RecordsOf(u.id, e) # {}
        /\ CastVoteOutcome(SessionOf(u), e) = "Already voted"

(* C2: two castVote invocations of one voter on one election that run with *)
(* the voterRecords of the same render leave one VoterRecord of that voter *)
(* for that election, and no more votes than voters who voted.             *)
NoDoubleVoteC2 ==
    \A e \in ElectionIdInputs :
        /\ \A u \in Users : Cardinality(RecordsOf(u.id, e)) <= 1
        /\ Cardinality(VotesOf(e)) <= Cardinality({u \in Users : RecordsOf(u.id, e) # {}})

(* C3: for every election and every caller to whom its results are visible *)
(* (the election is closed, or the caller is an administrator), the counts *)
(* of getElectionResults add up to the number of votes stored for it.      *)
TallyMatchesVotesC3 ==
    \A s \in Sessions, i \in DOMAIN elections :
        (elections[i].status = "closed" \/ IsAdminProfile(s))
            => totalVotes(getElectionResults(s, elections[i].id))
                 = Cardinality(VotesOf(elections[i].id))

(* C4: a caller who is not an administrator (nobody signed in included)    *)
(* gets the empty mapping from getElectionResults for every election that  *)
(* is not closed: a tally is returned only if the election is closed or    *)
(* the caller is an administrator.                                         *)
ResultsHiddenC4 ==
    \A s \in Sessions, e \in ElectionIdInputs :
        (/\ ~IsAdminProfile(s)
         /\ ~(\E i \in DOMAIN elections :
                 elections[i].id = e /\ elections[i].status = "closed"))
            => getElectionResults(s, e) = EmptyMapping

HiddenWhileActiveC4 ==
    \E e \in ElectionIdInputs, i \in DOMAIN elections :
        /\ elections[i].id = e /\ elections[i].status = "active"
        /\ VotesOf(e) # {}
        /\ getElectionResults(SessionOf(Voter1), e) = EmptyMapping

(* C5: from a state in which two voters may both vote in an election, the  *)
(* run in which voter 1 votes a and then voter 2 votes b stores the same   *)
(* votes and voterRecords as the run in which voter 1 votes b and then     *)
(* voter 2 votes a.                                                        *)
StoredAfter(e, first, second) ==
    [votes |-> AppendVote(AppendVote(votes, e, first), e, second),
     voterRecords |-> AppendVoterRecord(AppendVoterRecord(voterRecords, Voter1.id, e),
                                        Voter2.id, e)]

UnlinkableC5 ==
    \A e \in ElectionIdInputs, a \in BallotCandidates, b \in BallotCandidates :
        (/\ a # b
         /\ CastVoteOutcome(SessionOf(Voter1), e) = "ok"
         /\ CastVoteOutcome(SessionOf(Voter2), e) = "ok")
            => StoredAfter(e, a, b) = StoredAfter(e, b, a)

(* C6: once a code value has a row marked used, validateVoterCode is false *)
(* for that code value and every election id, in every later state.       *)
UsedCodeStaysInvalidC6 ==
    \A k \in CodeValues :
        (\E i \in DOMAIN voterCodes : voterCodes[i].code = k /\ voterCodes[i].isUsed)
            => \A e \in ElectionIdInputs : ~validateVoterCode(k, e)

RegisteredEmails(e) ==
    {m \in VoterEmails \cup EmailInputs :
        \E i \in DOMAIN voterRegistrations :
            /\ voterRegistrations[i].electionId = e
            /\ toLowerCase(voterRegistrations[i].email) = toLowerCase(m)}

RegistrationOpenFor(e) ==
    \E i \in DOMAIN elections :
        /\ elections[i].id = e
        /\ elections[i].status = "upcoming"
        /\ elections[i].registrationStatus = "open"

(* C7 as stated: registerForElection with an election and an e-mail that  *)
(* equals, ignoring case, the e-mail of an existing registration for that  *)
(* election fails as "Already registered" for every signed-in caller,      *)
(* whatever happened since the first registration.                         *)
DuplicateAlwaysAlreadyRegisteredC7 ==
    \A e \in ElectionIdInputs : \A m \in RegisteredEmails(e), s \in Sessions :
        s.user # NoUser => RegisterOutcome(s, e, m) = "Already registered"

(* C7 amended: such a second call never succeeds. It fails as "Already     *)
(* registered" while the election is upcoming with open registration, and  *)
(* as "Registration closed" otherwise (that check comes first); no two     *)
(* registrations of an election have e-mails equal ignoring case, and a    *)
(* step that adds a registration leaves the existing ones as they were.    *)
DuplicateRegistrationRejectedC7 ==
    /\ [](\A e \in ElectionIdInputs : \A m \in RegisteredEmails(e), s \in Sessions :
            s.user # NoUser =>
                RegisterOutcome(s, e, m) = IF RegistrationOpenFor(e)
                                           THEN "Already registered"
                                           ELSE "Registration closed")
    /\ [](\A i \in DOMAIN voterRegistrations, j \in DOMAIN voterRegistrations :
            (/\ i # j
             /\ voterRegistrations[i].electionId = voterRegistrations[j].electionId)
                => toLowerCase(voterRegistrations[i].email)
                     # toLowerCase(voterRegistrations[j].email))
    /\ [][Len(voterRegistrations') > Len(voterRegistrations)
            => SubSeq(voterRegistrations', 1, Len(voterRegistrations))
                 = voterRegistrations]_vars

DuplicateSeenAfterCloseC7 ==
    \E e \in ElectionIdInputs : \E m \in RegisteredEmails(e) :
        /\ \E i \in DOMAIN voterRegistrations :
              voterRegistrations[i].electionId = e /\ voterRegistrations[i].email # m
        /\ ~RegistrationOpenFor(e)
        /\ RegisterOutcome(SessionOf(Voter1), e, m) = "Registration closed"

(* C8: every election whose status is active has at least 2 candidates.    *)
ActiveHasTwoCandidatesC8 ==
    \A i \in DOMAIN elections :
        elections[i].status = "active" => Len(elections[i].candidates) >= 2

IsApprovedVoter(u, e) ==
    \E i \in DOMAIN voterRegistrations :
        /\ voterRegistrations[i].electionId = e
        /\ voterRegistrations[i].email = u.email
        /\ voterRegistrations[i].status = "approved"
        /\ \E k \in DOMAIN voterCodes : voterCodes[k].code = voterRegistrations[i].voterCodeId

(* C9: for a signed-in caller the outcome of castVote is that of the first *)
(* failing check in the order: caller is an administrator (Forbidden),     *)
(* election unknown (NotFound), election not active (InvalidState), caller *)
(* not an approved voter (NotEligible), caller has a VoterRecord for the   *)
(* election (AlreadyVoted).                                                *)
CheckOrderC9 ==
    \A s \in Sessions, e \in ElectionIdInputs :
        s.user # NoUser =>
            CastVoteOutcome(s, e) =
                IF IsAdminProfile(s) THEN "Admin cannot vote"
                ELSE IF \A i \in DOMAIN elections : elections[i].id # e
                     THEN "Election not found"
                ELSE IF \A i \in DOMAIN elections :
                            elections[i].id = e => elections[i].status # "active"
                     THEN "Voting not allowed"
                ELSE IF ~IsApprovedVoter(s.user, e) THEN "Not authorized"
                ELSE IF RecordsOf(s.user.id, e) # {} THEN "Already voted"
                ELSE "ok"

(* C10: a caller whom the admin-only operations accept as administrator    *)
(* never gets castVote through, and no VoterRecord carries the id of such  *)
(* a caller.                                                               *)
AdminsCannotVoteC10 ==
    \A s \in Sessions :
        IsAdminProfile(s) =>
            /\ \A e \in ElectionIdInputs : CastVoteOutcome(s, e) # "ok"
            /\ \A i \in DOMAIN voterRecords : voterRecords[i].voterId # s.user.id

(* C11: isVoterApprovedForElection is true for a signed-in voter exactly   *)
(* when a registration of the election with the voter's e-mail has status  *)
(* approved and a voterCodeId that is the code of a row of voterCodes,     *)
(* whether that row is used or not; it is false while a registration with  *)
(* the voter's e-mail for the election is rejected.                        *)
ApprovedIffRegistrationAndCodeC11 ==
    \A u \in Users, e \in ElectionIdInputs :
        /\ isVoterApprovedForElection(SessionOf(u), e) = IsApprovedVoter(u, e)
        /\ (\E i \in DOMAIN voterRegistrations :
               /\ voterRegistrations[i].electionId = e
               /\ voterRegistrations[i].email = u.email
               /\ voterRegistrations[i].status = "rejected")
              => ~isVoterApprovedForElection(SessionOf(u), e)

ApprovedWithUsedCodeC11 ==
    \E u \in Users, e \in ElectionIdInputs, i \in DOMAIN voterRegistrations :
        /\ voterRegistrations[i].electionId = e
        /\ voterRegistrations[i].email = u.email
        /\ voterRegistrations[i].status = "approved"
        /\ \A k \in DOMAIN voterCodes :
              voterCodes[k].code = voterRegistrations[i].voterCodeId => voterCodes[k].isUsed
        /\ isVoterApprovedForElection(SessionOf(u), e)

ElectionKnown(e) == \E i \in DOMAIN elections : elections[i].id = e

(* C12 as stated: canRegisterForElection is true exactly when the election *)
(* exists, is upcoming and has registration open, and wherever it is false *)
(* registerForElection fails as "Registration closed".                     *)
CanRegisterIffOpenC12 ==
    \A s \in Sessions, e \in ElectionIdInputs :
        /\ canRegisterForElection(s, e) = RegistrationOpenFor(e)
        /\ ~canRegisterForElection(s, e)
              => \A m \in VoterEmails : RegisterOutcome(s, e, m) = "Registration closed"

(* C12 amended: for a signed-in caller canRegisterForElection is true      *)
(* exactly when the election exists, is upcoming and has registration      *)
(* open, and it is false when nobody is signed in. Where it is false       *)
(* registerForElection fails: "Authentication required" with nobody signed *)
(* in, "Election not found" for an unknown election, "Registration closed" *)
(* otherwise. A step that adds a registration adds one pending row for an  *)
(* election that was upcoming with registration open, and any other step   *)
(* adds none.                                                              *)
CanRegisterSignedInIffOpenC12 ==
    /\ [](\A s \in Sessions, e \in ElectionIdInputs :
            /\ canRegisterForElection(s, e) = (s.user # NoUser /\ RegistrationOpenFor(e))
            /\ ~canRegisterForElection(s, e)
                  => \A m \in VoterEmails :
                        RegisterOutcome(s, e, m) =
                            IF s.user = NoUser THEN "Authentication required"
                            ELSE IF ~ElectionKnown(e) THEN "Election not found"
                            ELSE "Registration closed")
    /\ [][/\ Len(voterRegistrations') <= Len(voterRegistrations) + 1
          /\ Len(voterRegistrations') >= Len(voterRegistrations)
          /\ Len(voterRegistrations') > Len(voterRegistrations)
                => /\ voterRegistrations'[Len(voterRegistrations')].status = "pending"
                   /\ RegistrationOpenFor(
                          voterRegistrations'[Len(voterRegistrations')].electionId)]_vars

RegistrationClosedSeenC12 ==
    \E e \in ElectionIdInputs :
        /\ ElectionKnown(e)
        /\ ~RegistrationOpenFor(e)
        /\ \E i \in DOMAIN voterRegistrations :
              voterRegistrations[i].electionId = e /\ voterRegistrations[i].status = "pending"
        /\ RegisterOutcome(SessionOf(Voter2), e, "z@y.com") = "Registration closed"

(* the step reviewed registration r: its status, reviewer or code changed  *)
ReviewedInStep(r) ==
    /\ r \in DOMAIN voterRegistrations /\ r \in DOMAIN voterRegistrations'
    /\ voterRegistrations'[r] # voterRegistrations[r]

(* the step appended one code row bound to an e-mail, as an approval does  *)
CodeIssued ==
    /\ Len(voterCodes') = Len(voterCodes) + 1
    /\ voterCodes'[Len(voterCodes')].email # ""

(* C13: a review step changes of a registration only status, reviewedBy    *)
(* and voterCodeId. Approving sets status approved, stamps the reviewer,   *)
(* appends exactly one unused code row of the registration's election and  *)
(* e-mail and sets voterCodeId to its code; rejecting sets status          *)
(* rejected, stamps the reviewer, keeps voterCodeId and adds no code row.  *)
(* For an id of no registration the outcome is "Registration not found".   *)
ReviewEffectC13 ==
    /\ [](\A s \in Sessions :
            IsAdminProfile(s) =>
                ReviewOutcome(s, Len(voterRegistrations) + 1) = "Registration not found")
    /\ [][/\ \A r \in DOMAIN voterRegistrations :
                ReviewedInStep(r) =>
                    LET old == voterRegistrations[r]
                        new == voterRegistrations'[r]
                    IN /\ new = [old EXCEPT !.status = new.status,
                                            !.reviewedBy = new.reviewedBy,
                                            !.voterCodeId = new.voterCodeId]
                       /\ new.status \in ReviewValues
                       /\ new.reviewedBy \in AdminIdInputs
                       /\ \A q \in DOMAIN voterRegistrations :
                             q # r => voterRegistrations'[q] = voterRegistrations[q]
                       /\ IF new.status = "approved"
                          THEN /\ voterCodes' =
                                    Append(voterCodes,
                                           [code |-> new.voterCodeId,
                                            electionId |-> old.electionId,
                                            email |-> old.email, isUsed |-> FALSE,
                                            createdBy |-> new.reviewedBy])
                          ELSE /\ voterCodes' = voterCodes
                               /\ new.voterCodeId = old.voterCodeId
          /\ CodeIssued =>
                \E r \in DOMAIN voterRegistrations :
                    /\ voterRegistrations'[r].status = "approved"
                    /\ voterRegistrations'[r].voterCodeId = voterCodes'[Len(voterCodes')].code
                    /\ voterRegistrations'[r].electionId
                          = voterCodes'[Len(voterCodes')].electionId]_vars

ApprovedThenRejectedC13 ==
    \E r \in DOMAIN voterRegistrations :
        /\ voterRegistrations[r].status = "rejected"
        /\ \E k \in DOMAIN voterCodes :
              /\ voterCodes[k].code = voterRegistrations[r].voterCodeId
              /\ voterCodes[k].email = voterRegistrations[r].email
              /\ ~voterCodes[k].isUsed

NonAdminSessions == {s \in Sessions : ~IsAdminProfile(s)}

(* the step is one an admin-only operation called by s can take *)
AdminOnlyCallBy(s) ==
    \/ \E inserted \in BOOLEAN, started \in BOOLEAN, given \in 0 .. MaxNewCandidates,
          saved \in 0 .. MaxNewCandidates, k \in ElectionCodeValues :
            CreateElection(s, inserted, started, given, saved, k)
    \/ \E e \in ElectionIdInputs, st \in StatusValues : UpdateElectionStatus(s, e, st)
    \/ \E e \in ElectionIdInputs, rs \in RegistrationStatusValues :
            UpdateRegistrationStatus(s, e, rs)
    \/ \E e \in ElectionIdInputs, c \in RenameCandidateInputs, n \in NewNameInputs :
            UpdateCandidateName(s, e, c, n)
    \/ \E r \in 1 .. MaxRegistrations, st \in ReviewValues, a \in AdminIdInputs,
          k \in CodeValues : UpdateVoterRegistrationStatus(s, r, st, a, k)
    \/ \E e \in ElectionIdInputs, ks \in CodeSeqs : GenerateVoterCodes(s, e, ks)

(* C14: for a caller who is not an administrator (nobody signed in, a      *)
(* voter, or a user whose profile is not loaded) every admin-only          *)
(* operation ends as "Permission denied", and no step that changes the     *)
(* state is a step such a caller's admin-only call can take.               *)
NonAdminDeniedC14 ==
    /\ [](\A s \in NonAdminSessions :
            /\ AdminOutcome(s) = "Permission denied"
            /\ \A e \in ElectionIdInputs :
                  /\ CandidateNameOutcome(s, e) = "Permission denied"
                  /\ GenerateOutcome(s, e) = "Permission denied"
            /\ \A r \in 1 .. MaxRegistrations + 1 :
                  ReviewOutcome(s, r) = "Permission denied")
    /\ [][\A s \in NonAdminSessions : ~AdminOnlyCallBy(s)]_vars

DeniedWithWorkPendingC14 ==
    /\ \E r \in DOMAIN voterRegistrations :
          /\ voterRegistrations[r].status = "pending"
          /\ ReviewOutcome(SessionOf(Voter1), voterRegistrations[r].id) = "Permission denied"
    /\ Len(elections) > Len(MOCK_ELECTIONS)
    /\ AdminOutcome([user |-> AdminUser, profile |-> NoProfile]) = "Permission denied"

(* C15: no two elections have the same electionCode.                       *)
UniqueElectionCodesC15 ==
    \A i \in DOMAIN elections, j \in DOMAIN elections :
        i # j => elections[i].electionCode # elections[j].electionCode

(* C16: no two rows of voterCodes have the same code value.                *)
UniqueVoterCodesC16 ==
    \A i \in DOMAIN voterCodes, j \in DOMAIN voterCodes :
        i # j => voterCodes[i].code # voterCodes[j].code

StatusOfElection(e) ==
    LET idx == {i \in DOMAIN elections : elections[i].id = e}
    IN IF idx = {} THEN "" ELSE elections[Min(idx)].status

(* C17: updateCandidateName by an administrator on an election that is     *)
(* active or closed ends as "Update not allowed" (InvalidState). A step of *)
(* updateCandidateName that changes the state is taken by an               *)
(* administrator on an upcoming election and changes nothing but the name  *)
(* of the named candidate of the named election.                           *)
RenameOnlyWhileUpcomingC17 ==
    /\ [](\A s \in Sessions, e \in ElectionIdInputs :
            (IsAdminProfile(s) /\ StatusOfElection(e) \in {"active", "closed"})
                => CandidateNameOutcome(s, e) = "Update not allowed")
    /\ [][\A s \in Sessions, e \in ElectionIdInputs, c \in RenameCandidateInputs,
             n \in NewNameInputs :
            UpdateCandidateName(s, e, c, n) =>
                /\ IsAdminProfile(s)
                /\ StatusOfElection(e) = "upcoming"
                /\ Len(elections') = Len(elections)
                /\ \A i \in DOMAIN elections :
                      /\ elections'[i] = [elections[i] EXCEPT
                                              !.candidates = elections'[i].candidates]
                      /\ Len(elections'[i].candidates) = Len(elections[i].candidates)
                      /\ \A k \in DOMAIN elections[i].candidates :
                            IF elections[i].id = e /\ elections[i].candidates[k].id = c
                            THEN elections'[i].candidates[k] =
                                    [elections[i].candidates[k] EXCEPT !.name = n]
                            ELSE elections'[i].candidates[k] = elections[i].candidates[k]]_vars

RenamedThenStartedC17 ==
    \E i \in DOMAIN elections :
        /\ elections[i].status = "active"
        /\ \E k \in DOMAIN elections[i].candidates :
              elections[i].candidates[k].name \in NewNameInputs
        /\ CandidateNameOutcome(SessionOf(AdminUser), elections[i].id) = "Update not allowed"

(* C18: updateElectionStatus by an administrator sets the status of an     *)
(* existing election to the status given, whatever the status was: from    *)
(* each status each status is one step away, closed to active and closed   *)
(* to upcoming included. A voter who is approved for an active election    *)
(* and has no VoterRecord for it gets castVote through, also when the      *)
(* election was closed before.                                             *)
StatusOverwriteC18 ==
    /\ \A e \in ElectionIdInputs, st \in StatusValues :
          ElectionKnown(e) =>
              ENABLED (/\ UpdateElectionStatus(SessionOf(AdminUser), e, st)
                       /\ \A i \in DOMAIN elections' :
                             elections'[i].id = e => elections'[i].status = st
                       /\ Len(elections') = Len(elections))
    /\ \A u \in Users, e \in ElectionIdInputs :
          (/\ StatusOfElection(e) = "active"
           /\ IsApprovedVoter(u, e)
           /\ RecordsOf(u.id, e) = {}
           /\ ~IsAdminProfile(SessionOf(u)))
              => CastVoteOutcome(SessionOf(u), e) = "ok"

ReopenedForVotingC18 ==
    \E e \in ElectionIdInputs :
        /\ StatusOfElection(e) = "closed"
        /\ VotesOf(e) # {}
        /\ CastVoteOutcome(SessionOf(Voter2), e) = "Voting not allowed"
        /\ ENABLED (/\ UpdateElectionStatus(SessionOf(AdminUser), e, "active")
                    /\ CastVoteOutcome(SessionOf(Voter2), e)' = "ok")

Statuses == [i \in DOMAIN elections |-> elections[i].status]

(* the step is one of an operation other than updateElectionStatus *)
OtherOperation ==
    \/ \E s \in Sessions, e \in ElectionIdInputs, c \in CandidateIdInputs : CastVote(s, e, c)
    \/ \E s \in Sessions, e \in ElectionIdInputs, n \in NameInputs, m \in EmailInputs :
          RegisterForElection(s, e, n, m)
    \/ \E s \in Sessions, r \in 1 .. MaxRegistrations, st \in ReviewValues,
          a \in AdminIdInputs, k \in CodeValues :
            UpdateVoterRegistrationStatus(s, r, st, a, k)
    \/ \E s \in Sessions, e \in ElectionIdInputs, ks \in CodeSeqs : GenerateVoterCodes(s, e, ks)
    \/ \E k \in CodeValues : MarkVoterCodeAsUsed(k)
    \/ \E s \in Sessions, e \in ElectionIdInputs, rs \in RegistrationStatusValues :
          UpdateRegistrationStatus(s, e, rs)
    \/ \E s \in Sessions, e \in ElectionIdInputs, c \in RenameCandidateInputs,
          n \in NewNameInputs : UpdateCandidateName(s, e, c, n)

Orders(S) == {f \in [1 .. Cardinality(S) -> S] : \A i, j \in DOMAIN f : i # j => f[i] # f[j]}

StrictMax(results, c) ==
    /\ results[c] > 0
    /\ \A d \in DOMAIN results \ {c} : results[c] > results[d]

(* C20: for the tally getElectionResults gives a caller, in whatever order *)
(* its entries are listed, the winner is the candidate whose count is      *)
(* greater than the count of every other candidate; there is no winner     *)
(* when two or more candidates share the highest count, and none when the  *)
(* tally holds no votes.                                                   *)
WinnerIsStrictMaxC20 ==
    \A s \in Sessions, i \in DOMAIN elections :
        LET results == getElectionResults(s, elections[i].id)
        IN \A entries \in Orders(DOMAIN results) :
              LET winner == getWinner(elections[i], results, entries)
              IN /\ \A c \in DOMAIN results : (winner.id = c) <=> StrictMax(results, c)
                 /\ (\A c \in DOMAIN results : ~StrictMax(results, c)) => winner = NoCandidate
                 /\ totalVotes(results) = 0 => winner = NoCandidate

TieHasNoWinnerC20 ==
    \E i \in DOMAIN elections :
        LET results == getElectionResults(SessionOf(Voter1), elections[i].id)
        IN /\ elections[i].status = "closed"
           /\ DOMAIN results = TallyCandidates
           /\ results[201] = 2 /\ results[202] = 2 /\ results[203] = 0
           /\ \A entries \in Orders(DOMAIN results) :
                 getWinner(elections[i], results, entries) = NoCandidate

(* C21: once the administrator has created an election with candidates A  *)
(* and B, the voter has registered, been approved and redeemed the code,   *)
(* the election has been set active and the voter has voted for A,         *)
(* getElectionResults gives the administrator A: 1 and B: 0 and a second   *)
(* castVote of the voter ends as "Already voted".                          *)
JourneyResultsC21 ==
    \A e \in JourneyElections :
        (/\ StatusOfElection(e) = "active"
         /\ IsApprovedVoter(Voter1, e)
         /\ \E k \in DOMAIN voterCodes :
               voterCodes[k].email = Voter1.email /\ voterCodes[k].isUsed
         /\ RecordsOf(Voter1.id, e) # {}
         /\ Len(votes) = 1 /\ votes[1].electionId = e /\ votes[1].candidateId = CandidateA)
            => /\ getElectionResults(SessionOf(AdminUser), e)
                    = [c \in {CandidateA, CandidateB} |-> IF c = CandidateA THEN 1 ELSE 0]
               /\ CastVoteOutcome(SessionOf(Voter1), e) = "Already voted"

(* C22: castVote of a caller who is not signed in, or is an administrator, *)
(* or whose election is unknown or not active, or who is not an approved   *)
(* voter, or who has a VoterRecord for the election, does not get through  *)
(* and changes nothing. A castVote that changes the state appends exactly  *)
(* one Vote, for the election and candidate given, and exactly one         *)
(* VoterRecord of the caller, and leaves elections, voterCodes and         *)
(* voterRegistrations as they were.                                        *)
CastVoteFrameC22 ==
    /\ [](\A s \in Sessions, e \in ElectionIdInputs :
            CastVoteOutcome(s, e) = "ok" =>
                /\ s.user # NoUser
                /\ ~IsAdminProfile(s)
                /\ StatusOfElection(e) = "active"
                /\ IsApprovedVoter(s.user, e)
                /\ RecordsOf(s.user.id, e) = {})
    /\ [][\A s \in Sessions, e \in ElectionIdInputs, c \in CandidateIdInputs :
            CastVote(s, e, c) =>
                /\ CastVoteOutcome(s, e) = "ok"
                /\ votes' = Append(votes, [id |-> Len(votes) + 1, electionId |-> e,
                                           candidateId |-> c])
                /\ voterRecords' = Append(voterRecords,
                                          [voterId |-> s.user.id, electionId |-> e,
                                           hasVoted |-> TRUE])
                /\ UNCHANGED <<elections, voterCodes, voterRegistrations>>]_vars

(* C23: mounting the provider again changes nothing: every election, with  *)
(* its status, registrationStatus and candidate names and with the         *)
(* elections that were created, and every Vote, VoterRecord, VoterCode and *)
(* VoterRegistration is what it was before.                                *)
ReloadKeepsStateC23 ==
    [][Reload => UNCHANGED <<elections, votes, voterRecords, voterCodes,
                             voterRegistrations>>]_vars


RecordsOfElection(electionId) ==
    {i \in DOMAIN voterRecords : voterRecords[i].electionId = electionId}

(* C24: when operations run one after the other, every election has as     *)
(* many Vote rows as VoterRecord rows, and no step removes or alters a     *)
(* Vote or a VoterRecord that is stored: both sequences only grow at the   *)
(* end.                                                                    *)
VotesMatchRecordsC24 ==
    /\ [](\A e \in ElectionIdInputs :
            Cardinality(VotesOf(e)) = Cardinality(RecordsOfElection(e)))
    /\ [][/\ Len(votes') >= Len(votes)
          /\ SubSeq(votes', 1, Len(votes)) = votes
          /\ Len(voterRecords') >= Len(voterRecords)
          /\ SubSeq(voterRecords', 1, Len(voterRecords)) = voterRecords]_vars

TwoBallotsAfterReloadC24 ==
    /\ Len(votes) = 2 /\ Len(voterRecords) = 2
    /\ elections = MOCK_ELECTIONS


(* C25: a step that stores a Vote stores it for a candidate of the election *)
(* the Vote names.                                                         *)
VoteNamesCandidateC25 ==
    [][Len(votes') > Len(votes) =>
          LET vote == votes'[Len(votes')]
          IN vote.candidateId \in CandidateIds(getElectionById(vote.electionId))]_vars


(* C26: a step in which a voter's castVote gets through starts in a state  *)
(* where the VoterCode bound to the voter's approved registration for the  *)
(* election has isUsed true.                                               *)
VoteNeedsRedeemedCodeC26 ==
    [][\A u \in {Voter1, Voter2}, e \in ElectionIdInputs :
          VoteCastBy(u, e) =>
              \E i \in DOMAIN voterRegistrations, k \in DOMAIN voterCodes :
                  /\ voterRegistrations[i].electionId = e
                  /\ voterRegistrations[i].email = u.email
                  /\ voterRegistrations[i].status = "approved"
                  /\ voterCodes[k].code = voterRegistrations[i].voterCodeId
                  /\ voterCodes[k].isUsed]_vars


(* C27: whatever reviews have happened, a registration has a voterCodeId   *)
(* exactly when its status is approved, and no two VoterCodes are bound to *)
(* the same election and e-mail address.                                   *)
CodeLinkedIffApprovedC27 ==
    /\ \A i \in DOMAIN voterRegistrations :
          (voterRegistrations[i].voterCodeId # "") <=>
              (voterRegistrations[i].status = "approved")
    /\ \A j, k \in DOMAIN voterCodes :
          (/\ voterCodes[j].email # ""
           /\ voterCodes[j].email = voterCodes[k].email
           /\ voterCodes[j].electionId = voterCodes[k].electionId) => j = k


(* SpecProxy: Voter1 never calls anything. Voter2 fills in the             *)
(* registration form, the administrator reviews and runs the election.     *)
OtherSessions == {SessionOf(Voter2), SessionOf(AdminUser)}

NextProxy ==
    \/ RegisterStep(OtherSessions, BallotElections, VoterEmails, MaxVoters)
    \/ ReviewStep(OtherSessions, MaxVoters)
    \/ StatusStep(OtherSessions, BallotElections)
    \/ RegistrationStatusStep(OtherSessions, BallotElections)

SpecProxy == Init /\ [][NextProxy]_vars

(* C28: as long as Voter1 has submitted nothing, Voter1 is an approved     *)
(* voter of no election, whatever the other users submit.                  *)
EligibleOnlyByOwnActionC28 ==
    \A e \in ElectionIdInputs : ~isVoterApprovedForElection(SessionOf(Voter1), e)


(* C29: for a caller who is not an administrator the three getters return *)
(* empty lists, and the voterCodes the context hands to that caller hold   *)
(* no code that is still unused.                                           *)
CodesHiddenFromNonAdminC29 ==
    \A s \in NonAdminSessions :
        /\ getPendingRegistrations(s) = << >>
        /\ \A e \in ElectionIdInputs :
              /\ getVoterCodesByElection(s, e) = << >>
              /\ getVoterRegistrationsByElection(s, e) = << >>
        /\ \A i \in DOMAIN valueVoterCodes(s) : valueVoterCodes(s)[i].isUsed


(* C30: in the AuthProvider, profile is NoProfile while nobody is signed   *)
(* in, and a profile that is held is the profile of the user signed in,    *)
(* however session events and the answers to profile requests interleave.  *)
ProfileIsOfCurrentUserC30 ==
    /\ user = NoUser => profile = NoProfile
    /\ profile # NoProfile => profile = ProfileOf(user)

====
